---- MODULE Spec2Model ----
(***************************************************************************)
(* State-machine model of src/initiation.py: LEDController (constructor,   *)
(* network indication, button polling, press handling with retries,        *)
(* cleanup).  Time is counted in ticks of 0.1 s.                           *)
(***************************************************************************)
EXTENDS Integers, Sequences, FiniteSets, TLC

VARIABLES
    pc,                  \* position of the single thread of control
    exc,                 \* exception propagating out of run(): "none" or its class
    interrupted,         \* a KeyboardInterrupt has been delivered
    gpio,                \* "unset" | "ready" | "cleaned"
    led,                 \* output pins: red, green, blue, status, success, error
    network_connected,   \* self.network_connected
    reachable,           \* environment: would a TCP connect to test_host succeed
    flips,               \* how often the environment changed reachability
    max_retries,         \* config LED_BEHAVIOR.max_retries
    button_state,        \* file_write_mode local: last level read
    button_pressed_last, \* file_write_mode local
    file_written,        \* file_write_mode local
    success,             \* handle_button_press local
    retry,               \* handle_button_press loop variable (0 = initial attempt)
    blink_i,             \* blinks completed in the current burst
    ret,                 \* return value of handle_button_press: "none"|"true"|"false"
    now,                 \* wall clock, in ticks
    polls,               \* number of polls of the button so far
    attempts,            \* history: one record per call of write_data_file
    log                  \* history: sequence of events of the run

vars == <<pc, exc, interrupted, gpio, led, network_connected, reachable, flips,
          max_retries, button_state, button_pressed_last, file_written, success,
          retry, blink_i, ret, now, polls, attempts, log>>

-----------------------------------------------------------------------------
(* Bounds of the model *)
MaxRetriesBound == 3
MaxPolls == 3
MaxFlips == 1
MaxStartPhase == 2

(* Program constants, in ticks of 0.1 s *)
TicksPerSecond == 10
PollSleep == 1
StatusHold == 5
BlinkDuration == 5
RetryDelay == 20
SuccessHold == 20
ErrorHold == 50

LOW == "LOW"
HIGH == "HIGH"

AllOff == [red |-> FALSE, green |-> FALSE, blue |-> FALSE,
           status |-> FALSE, success |-> FALSE, error |-> FALSE]

\* set_rgb_color(r, g, b)
set_rgb_color(l, r, g, b) == [l EXCEPT !.red = r, !.green = g, !.blue = b]

\* datetime.now().strftime('%Y%m%d_%H%M%S'): the clock at second resolution
Timestamp(t) == t \div TicksPerSecond

\* filename = f"{file_prefix}_{timestamp}{file_extension}"; the prefix and the
\* extension are fixed, so a filename is identified by its timestamp
Filename(t) == <<"TEST_DATA", Timestamp(t), ".txt">>

\* the text written to the file: timestamp line and network status line
Content(t, net) == <<"ADS Data Log", Timestamp(t),
                     IF net THEN "Connected" ELSE "Disconnected">>

\* what can happen inside one call of write_data_file: it completes, mkdir
\* raises OSError, or open()/f.write() raises OSError
Outcomes == {"ok", "mkdir_error", "write_error"}

\* except Exception (line 171): the I/O errors of mkdir/open/write are OSError
CaughtOnlyFileErrors(outcome) == outcome # "mkdir_error"
Caught(outcome) == TRUE

\* for retry in range(1, max_retries + 1)
RetryRangeOneMore(n) == 1..(n + 1)
RetryRange(n) == 1..n

\* for _ in range(retry)
BlinkCountPlusOne(r) == r + 1
BlinkCount(r) == r

\* after the blink burst comes time.sleep(retry_delay)
AfterBurstNoWait == "hbp_write"
AfterBurstPc == "hbp_wait"

\* the value returned after the loop is exhausted
ExhaustedTrue == "true"
ExhaustedResult == "false"

\* self.set_rgb_color(True, False, False); GPIO.output(self.error_led, HIGH)
FailureLedsDark(l) == [set_rgb_color(l, FALSE, FALSE, FALSE) EXCEPT !.status = FALSE]
FailureLedsStatusOn(l) == [set_rgb_color(l, TRUE, FALSE, FALSE) EXCEPT !.error = TRUE]
FailureLedsErrorOff(l) ==
    [set_rgb_color(l, TRUE, FALSE, FALSE) EXCEPT !.status = FALSE, !.error = FALSE]
FailureLeds(l) ==
    [set_rgb_color(l, TRUE, FALSE, FALSE) EXCEPT !.status = FALSE, !.error = TRUE]

\* button_state == GPIO.LOW and not button_pressed_last
Qualifies(level, last) == level = LOW /\ ~last

\* file_written = self.handle_button_press(); button_pressed_last = True; break
AfterHandleNoLatch(r) ==
    [file_written |-> r, button_pressed_last |-> FALSE, pc |-> "fwm_sleep"]
AfterHandleNoBreak(r) ==
    [file_written |-> r, button_pressed_last |-> TRUE, pc |-> "fwm_sleep"]
AfterHandle(r) ==
    [file_written |-> r, button_pressed_last |-> TRUE, pc |-> "fwm_done"]

-----------------------------------------------------------------------------
Init ==
    /\ pc = "ctor"
    /\ exc = "none"
    /\ interrupted = FALSE
    /\ gpio = "unset"
    /\ led = AllOff
    /\ network_connected = FALSE
    /\ reachable \in BOOLEAN
    /\ flips = 0
    /\ max_retries \in 0..MaxRetriesBound
    /\ button_state = "none"
    /\ button_pressed_last = FALSE
    /\ file_written = FALSE
    /\ success = FALSE
    /\ retry = 0
    /\ blink_i = 0
    /\ ret = "none"
    /\ now \in 0..MaxStartPhase
    /\ polls = 0
    /\ attempts = <<>>
    /\ log = <<>>

\* LEDController.__init__: load the config, set up GPIO, all LEDs off
Ctor ==
    /\ pc = "ctor"
    /\ gpio' = "ready"
    /\ led' = AllOff
    /\ pc' = "ctor_end"
    /\ UNCHANGED <<exc, interrupted, network_connected, reachable, flips,
                   max_retries, button_state, button_pressed_last, file_written,
                   success, retry, blink_i, ret, now, polls, attempts, log>>

\* self.network_connected = False; back in __main__, controller.run() is called
\* and prints its banner before it enters the try block
CtorEnd ==
    /\ pc = "ctor_end"
    /\ network_connected' = FALSE
    /\ pc' = "run_probe"
    /\ UNCHANGED <<exc, interrupted, gpio, led, reachable, flips, max_retries,
                   button_state, button_pressed_last, file_written, success,
                   retry, blink_i, ret, now, polls, attempts, log>>

\* the positions at which indicate_network_status is called: once, in run()
ProbePointsWithRetry == {"run_probe", "hbp_wait"}
ProbePoints == {"run_probe"}

\* indicate_network_status: green only when connected, red only otherwise
NetworkColorSwapped(l, connected) ==
    IF connected THEN set_rgb_color(l, TRUE, FALSE, FALSE)
                 ELSE set_rgb_color(l, FALSE, TRUE, FALSE)
NetworkColor(l, connected) ==
    IF connected THEN set_rgb_color(l, FALSE, TRUE, FALSE)
                 ELSE set_rgb_color(l, TRUE, FALSE, FALSE)

\* run(): self.indicate_network_status()
IndicateNetworkStatus ==
    /\ pc \in ProbePoints
    /\ network_connected' = reachable
    /\ led' = NetworkColor(led, reachable)
    /\ log' = Append(log, IF reachable THEN "probe_up" ELSE "probe_down")
    /\ pc' = IF pc = "run_probe" THEN "fwm_poll" ELSE pc
    /\ UNCHANGED <<exc, interrupted, gpio, reachable, flips, max_retries,
                   button_state, button_pressed_last, file_written, success,
                   retry, blink_i, ret, now, polls, attempts>>

\* file_write_mode: one evaluation of the loop body up to the sleep
FwmPoll ==
    /\ pc = "fwm_poll"
    /\ polls < MaxPolls
    /\ \E level \in {LOW, HIGH} :
        /\ button_state' = level
        /\ polls' = polls + 1
        /\ IF Qualifies(level, button_pressed_last)
           THEN /\ pc' = "hbp_start"
                /\ log' = log \o <<"poll_low", "call">>
                /\ UNCHANGED button_pressed_last
           ELSE /\ pc' = "fwm_sleep"
                /\ log' = Append(log, IF level = LOW THEN "poll_low" ELSE "poll_high")
                /\ button_pressed_last' =
                       IF level = HIGH THEN FALSE ELSE button_pressed_last
    /\ UNCHANGED <<exc, interrupted, gpio, led, network_connected, reachable,
                   flips, max_retries, file_written, success, retry, blink_i,
                   ret, now, attempts>>

\* time.sleep(0.1), then the loop condition `while not file_written`
FwmSleep ==
    /\ pc = "fwm_sleep"
    /\ now' = now + PollSleep
    /\ pc' = IF ~file_written THEN "fwm_poll" ELSE "fwm_done"
    /\ UNCHANGED <<exc, interrupted, gpio, led, network_connected, reachable,
                   flips, max_retries, button_state, button_pressed_last,
                   file_written, success, retry, blink_i, ret, polls, attempts,
                   log>>

\* the same loop once MaxPolls polls are on record: the button stays released
\* from then on, the poll reads HIGH, and the histories and the clock are no
\* longer advanced
FwmPollOn ==
    /\ pc = "fwm_poll"
    /\ polls >= MaxPolls
    /\ button_state' = HIGH
    /\ button_pressed_last' = FALSE
    /\ pc' = "fwm_idle"
    /\ UNCHANGED <<exc, interrupted, gpio, led, network_connected, reachable,
                   flips, max_retries, file_written, success, retry, blink_i,
                   ret, now, polls, attempts, log>>

FwmSleepOn ==
    /\ pc = "fwm_idle"
    /\ pc' = IF ~file_written THEN "fwm_poll" ELSE "fwm_done"
    /\ UNCHANGED <<exc, interrupted, gpio, led, network_connected, reachable,
                   flips, max_retries, button_state, button_pressed_last,
                   file_written, success, retry, blink_i, ret, now, polls,
                   attempts, log>>

\* handle_button_press: read the config, status LED on, sleep 0.5
HbpStart ==
    /\ pc = "hbp_start"
    /\ led' = [led EXCEPT !.status = TRUE]
    /\ now' = now + StatusHold
    /\ retry' = 0
    /\ blink_i' = 0
    /\ pc' = "hbp_write"
    /\ UNCHANGED <<exc, interrupted, gpio, network_connected, reachable, flips,
                   max_retries, button_state, button_pressed_last, file_written,
                   success, ret, polls, attempts, log>>

\* success = self.write_data_file(), and the branch on it
HbpWrite ==
    /\ pc = "hbp_write"
    /\ \E outcome \in Outcomes :
        LET rec == [filename |-> Filename(now),
                    content  |-> Content(now, network_connected),
                    outcome  |-> outcome,
                    ok       |-> (outcome = "ok"),
                    at       |-> now]
        IN  /\ attempts' = Append(attempts, rec)
            /\ IF ~Caught(outcome) /\ outcome # "ok"
               THEN \* the exception leaves write_data_file and unwinds to run()
                    /\ exc' = "OSError"
                    /\ pc' = "cleanup"
                    /\ log' = Append(log, "attempt_raise")
                    /\ UNCHANGED <<success, retry, blink_i>>
               ELSE /\ exc' = exc
                    /\ success' = (outcome = "ok")
                    /\ log' = Append(log, IF outcome = "ok" THEN "attempt_ok"
                                                            ELSE "attempt_fail")
                    /\ IF outcome = "ok"
                       THEN pc' = "hbp_succ" /\ UNCHANGED <<retry, blink_i>>
                       ELSE IF retry + 1 \in RetryRange(max_retries)
                            THEN /\ retry' = retry + 1
                                 /\ blink_i' = 0
                                 /\ pc' = "hbp_blink_on"
                            ELSE /\ pc' = "hbp_fail"
                                 /\ UNCHANGED <<retry, blink_i>>
    /\ UNCHANGED <<interrupted, gpio, led, network_connected, reachable, flips,
                   max_retries, button_state, button_pressed_last, file_written,
                   ret, now, polls>>

\* GPIO.output(self.error_led, GPIO.HIGH); time.sleep(blink_duration)
HbpBlinkOn ==
    /\ pc = "hbp_blink_on"
    /\ led' = [led EXCEPT !.error = TRUE]
    /\ now' = now + BlinkDuration
    /\ pc' = "hbp_blink_off"
    /\ UNCHANGED <<exc, interrupted, gpio, network_connected, reachable, flips,
                   max_retries, button_state, button_pressed_last, file_written,
                   success, retry, blink_i, ret, polls, attempts, log>>

\* GPIO.output(self.error_led, GPIO.LOW); time.sleep(blink_duration); next blink
HbpBlinkOff ==
    /\ pc = "hbp_blink_off"
    /\ led' = [led EXCEPT !.error = FALSE]
    /\ now' = now + BlinkDuration
    /\ blink_i' = blink_i + 1
    /\ log' = Append(log, "blink")
    /\ pc' = IF blink_i + 1 < BlinkCount(retry) THEN "hbp_blink_on" ELSE AfterBurstPc
    /\ UNCHANGED <<exc, interrupted, gpio, network_connected, reachable, flips,
                   max_retries, button_state, button_pressed_last, file_written,
                   success, retry, ret, polls, attempts>>

\* time.sleep(retry_delay)
HbpWait ==
    /\ pc = "hbp_wait"
    /\ now' = now + RetryDelay
    /\ log' = Append(log, "wait")
    /\ pc' = "hbp_write"
    /\ UNCHANGED <<exc, interrupted, gpio, led, network_connected, reachable,
                   flips, max_retries, button_state, button_pressed_last,
                   file_written, success, retry, blink_i, ret, polls, attempts>>

\* status LED off, success LED on, time.sleep(2)
HbpSuccessOn ==
    /\ pc = "hbp_succ"
    /\ led' = [led EXCEPT !.status = FALSE, !.success = TRUE]
    /\ now' = now + SuccessHold
    /\ pc' = "hbp_succ_off"
    /\ UNCHANGED <<exc, interrupted, gpio, network_connected, reachable, flips,
                   max_retries, button_state, button_pressed_last, file_written,
                   success, retry, blink_i, ret, polls, attempts, log>>

\* success LED off; return True
HbpSuccessReturn ==
    /\ pc = "hbp_succ_off"
    /\ led' = [led EXCEPT !.success = FALSE]
    /\ ret' = "true"
    /\ log' = Append(log, "return_true")
    /\ pc' = "fwm_ret"
    /\ UNCHANGED <<exc, interrupted, gpio, network_connected, reachable, flips,
                   max_retries, button_state, button_pressed_last, file_written,
                   success, retry, blink_i, now, polls, attempts>>

\* the loop is exhausted: status LED off, RGB red, error LED on; return False
HbpFail ==
    /\ pc = "hbp_fail"
    /\ led' = FailureLeds(led)
    /\ ret' = ExhaustedResult
    /\ log' = Append(log, "return_" \o ExhaustedResult)
    /\ pc' = "fwm_ret"
    /\ UNCHANGED <<exc, interrupted, gpio, network_connected, reachable, flips,
                   max_retries, button_state, button_pressed_last, file_written,
                   success, retry, blink_i, now, polls, attempts>>

\* file_written = <returned value>; button_pressed_last = True; break
FwmReturn ==
    /\ pc = "fwm_ret"
    /\ LET a == AfterHandle(ret = "true")
       IN  /\ file_written' = a.file_written
           /\ button_pressed_last' = a.button_pressed_last
           /\ pc' = a.pc
    /\ UNCHANGED <<exc, interrupted, gpio, led, network_connected, reachable,
                   flips, max_retries, button_state, success, retry, blink_i,
                   ret, now, polls, attempts, log>>

\* after the loop: on failure time.sleep(5); return file_written; back in run()
FwmDone ==
    /\ pc = "fwm_done"
    /\ now' = IF file_written THEN now ELSE now + ErrorHold
    /\ pc' = "cleanup"
    /\ UNCHANGED <<exc, interrupted, gpio, led, network_connected, reachable,
                   flips, max_retries, button_state, button_pressed_last,
                   file_written, success, retry, blink_i, ret, polls, attempts,
                   log>>

\* finally: self.cleanup() -> GPIO.cleanup() releases every channel
Cleanup ==
    /\ pc = "cleanup"
    /\ gpio' = "cleaned"
    /\ led' = AllOff
    /\ log' = Append(log, "cleanup")
    /\ pc' = "exit"
    /\ UNCHANGED <<exc, interrupted, network_connected, reachable, flips,
                   max_retries, button_state, button_pressed_last, file_written,
                   success, retry, blink_i, ret, now, polls, attempts>>

\* positions inside the try block of run()
TryPcs == {"run_probe", "fwm_poll", "fwm_sleep", "fwm_idle", "hbp_start", "hbp_write",
           "hbp_blink_on", "hbp_blink_off", "hbp_wait", "hbp_succ",
           "hbp_succ_off", "hbp_fail", "fwm_ret", "fwm_done"}

\* KeyboardInterrupt inside run()'s try: except KeyboardInterrupt, then finally
InterruptInRun ==
    /\ pc \in TryPcs
    /\ interrupted' = TRUE
    /\ log' = Append(log, "interrupt")
    /\ pc' = "cleanup"
    /\ UNCHANGED <<exc, gpio, led, network_connected, reachable, flips,
                   max_retries, button_state, button_pressed_last, file_written,
                   success, retry, blink_i, ret, now, polls, attempts>>

\* positions outside the try block of run(): the constructor, which __main__
\* calls outside any try, and the entry of run()
CtorPcs == {"ctor", "ctor_end"}

\* KeyboardInterrupt outside the try block: it propagates out of __main__
InterruptInCtor ==
    /\ pc \in CtorPcs
    /\ interrupted' = TRUE
    /\ exc' = "KeyboardInterrupt"
    /\ log' = Append(log, "interrupt")
    /\ pc' = "exit"
    /\ UNCHANGED <<gpio, led, network_connected, reachable, flips, max_retries,
                   button_state, button_pressed_last, file_written, success,
                   retry, blink_i, ret, now, polls, attempts>>

\* the environment: the network comes up or goes down
NetChange ==
    /\ flips < MaxFlips
    /\ pc # "exit"
    /\ reachable' = ~reachable
    /\ flips' = flips + 1
    /\ UNCHANGED <<pc, exc, interrupted, gpio, led, network_connected,
                   max_retries, button_state, button_pressed_last, file_written,
                   success, retry, blink_i, ret, now, polls, attempts, log>>

Next ==
    \/ Ctor
    \/ CtorEnd
    \/ IndicateNetworkStatus
    \/ FwmPoll
    \/ FwmSleep
    \/ FwmPollOn
    \/ FwmSleepOn
    \/ HbpStart
    \/ HbpWrite
    \/ HbpBlinkOn
    \/ HbpBlinkOff
    \/ HbpWait
    \/ HbpSuccessOn
    \/ HbpSuccessReturn
    \/ HbpFail
    \/ FwmReturn
    \/ FwmDone
    \/ Cleanup
    \/ InterruptInRun
    \/ InterruptInCtor
    \/ NetChange

Spec == Init /\ [][Next]_vars

\* the steps of the program itself (not the interrupt, not the network)
Program ==
    \/ Ctor \/ CtorEnd \/ IndicateNetworkStatus
    \/ FwmPoll \/ FwmSleep \/ FwmPollOn \/ FwmSleepOn
    \/ HbpStart \/ HbpWrite \/ HbpBlinkOn \/ HbpBlinkOff \/ HbpWait
    \/ HbpSuccessOn \/ HbpSuccessReturn \/ HbpFail
    \/ FwmReturn \/ FwmDone \/ Cleanup

\* the single thread always executes its next statement: every sleep and every
\* I/O call of the program returns
LiveSpec == Init /\ [][Next]_vars /\ WF_vars(Program)

-----------------------------------------------------------------------------
(* Reading the histories *)

AttemptEvents == {"attempt_ok", "attempt_fail", "attempt_raise"}

\* positions of the log at which a call of write_data_file is recorded
AttemptIdx == {i \in DOMAIN log : log[i] \in AttemptEvents}

\* 0-based index of the attempt recorded at position i
AttemptNo(i) == Cardinality({j \in 1..(i - 1) : log[j] \in AttemptEvents})

CountEv(e) == Cardinality({i \in DOMAIN log : log[i] = e})

\* completed blinks between the attempt at position i and the next attempt
BlinksAfter(i) ==
    LET later == {a \in (i + 1)..Len(log) : log[a] \in AttemptEvents}
        stop  == IF later = {} THEN Len(log) + 1
                 ELSE CHOOSE a \in later : \A b \in later : a <= b
    IN  Cardinality({j \in (i + 1)..(stop - 1) : log[j] = "blink"})

\* the burst that follows the attempt at position i has ended (a wait or the
\* next attempt was reached)
BurstOver(i) ==
    \E j \in DOMAIN log : j > i /\ log[j] \in (AttemptEvents \cup {"wait"})

AllFailed == \A i \in DOMAIN attempts : ~attempts[i].ok

-----------------------------------------------------------------------------
\* C1: one run of handle_button_press calls write_data_file exactly
\* max_retries+1 times when every attempt fails and exactly k+1 times when the
\* attempt with 0-based index k is the first to succeed; no attempt follows a
\* successful one.
C1_AttemptCount ==
    /\ Len(attempts) <= max_retries + 1
    /\ \A i \in 1..(Len(attempts) - 1) : ~attempts[i].ok
    /\ ret = "false" => (Len(attempts) = max_retries + 1 /\ AllFailed)
    /\ ret = "true" => (Len(attempts) >= 1 /\ attempts[Len(attempts)].ok)

C1_Witness ==
    /\ ret = "true"
    /\ max_retries = 3
    /\ Len(attempts) = 3
    /\ ~attempts[1].ok /\ ~attempts[2].ok /\ attempts[3].ok

\* C2: within one press the filename and the content written are identical on
\* every attempt (the timestamp is fixed once at press time).
C2_SameRecordEveryAttempt ==
    \A i, j \in DOMAIN attempts :
        /\ attempts[i].filename = attempts[j].filename
        /\ attempts[i].content = attempts[j].content

C4_ReturnValue ==
    /\ [](ret # "none" =>
            /\ (ret = "true" <=> \E i \in DOMAIN attempts : attempts[i].ok)
            /\ (ret = "false" <=> (Len(attempts) = max_retries + 1 /\ AllFailed)))
    /\ [][ret # "none" => attempts' = attempts]_vars

C4_Witness ==
    /\ pc = "exit"
    /\ ret = "false"
    /\ max_retries = 2
    /\ Len(attempts) = 3
    /\ ~interrupted

\* C5: when all max_retries+1 attempts failed, from the return of
\* handle_button_press until GPIO cleanup the status light is off, the
\* indicator is red only, the error light is on and the result is false.
C5_FailureStateHeld ==
    (ret = "false" /\ gpio # "cleaned") =>
        /\ Len(attempts) = max_retries + 1
        /\ ~led.status
        /\ led.red /\ ~led.green /\ ~led.blue
        /\ led.error
        /\ (pc \in {"fwm_done", "cleanup"} /\ ~interrupted => ~file_written)

C5_Witness ==
    /\ ret = "false"
    /\ pc = "cleanup"
    /\ ~interrupted
    /\ led.red /\ led.error

\* C6: a retry_delay wait occurs only between two consecutive attempts: a
\* failed attempt that is not the last is followed by its burst, then exactly
\* one wait, then the next attempt; no wait follows the final or a successful
\* attempt, so all max_retries+1 attempts failing gives max_retries waits.
C6_WaitOnlyBetweenAttempts ==
    /\ \A i \in DOMAIN log :
          /\ log[i] = "wait" =>
                /\ i > 1 /\ log[i - 1] = "blink"
                /\ i < Len(log) => log[i + 1] \in (AttemptEvents \cup {"interrupt"})
          /\ (log[i] \in AttemptEvents /\ AttemptNo(i) > 0) => log[i - 1] = "wait"
          /\ (log[i] = "blink" /\ i < Len(log))
                => log[i + 1] \in {"blink", "wait", "interrupt"}
          /\ (log[i] = "attempt_fail" /\ i < Len(log))
                => log[i + 1] \in {"blink", "return_false", "interrupt"}
          /\ (log[i] = "attempt_ok" /\ i < Len(log))
                => log[i + 1] \in {"return_true", "interrupt"}
    /\ ret # "none" => CountEv("wait") = Len(attempts) - 1
    /\ ret = "false" => CountEv("wait") = max_retries

C6_Witness ==
    /\ ret = "false"
    /\ max_retries = 2
    /\ CountEv("wait") = 2
    /\ log[Len(log)] = "return_false"

\* C7: a failure to create the save directory aborts the run and is never
\* counted as a failed attempt that is followed by a retry.
C7_DirectoryFailureIsFatal ==
    \A i \in DOMAIN attempts :
        attempts[i].outcome = "mkdir_error" => (exc # "none" /\ i = Len(attempts))

\* C8: every I/O error raised during an attempt is caught inside
\* write_data_file and becomes the result False: no exception leaves it, and
\* handle_button_press reaches a return with the status light lowered.
C8_ErrorsBecomeFalse ==
    /\ exc \in {"none", "KeyboardInterrupt"}
    /\ CountEv("attempt_raise") = 0
    /\ \A i \in DOMAIN attempts : attempts[i].outcome # "ok" => ~attempts[i].ok
    /\ ret # "none" => ~led.status
    /\ (pc = "exit" /\ Len(attempts) > 0 /\ ~interrupted) => ret # "none"

C8_Witness ==
    /\ ret = "true"
    /\ Len(attempts) = 3
    /\ attempts[1].outcome = "mkdir_error"
    /\ attempts[2].outcome = "write_error"
    /\ attempts[3].outcome = "ok"
    /\ ~led.status

\* C10: while the button input is held low the pipeline is triggered once:
\* handle_button_press is invoked at a poll that reads low, and not a second
\* time unless the input has been read high and then low again in between.
C10_OneTriggerWhileHeldLow ==
    \A j \in DOMAIN log :
        log[j] = "call" =>
            /\ j > 1 /\ log[j - 1] = "poll_low"
            /\ \A i \in 1..(j - 1) :
                  log[i] = "call" => \E h \in (i + 1)..(j - 2) : log[h] = "poll_high"

C10_Witness ==
    /\ CountEv("call") = 1
    /\ button_state = LOW
    /\ ret = "false"
    /\ pc = "exit"
    /\ ~interrupted

\* C11: handle_button_press is invoked only on a falling edge: every invocation
\* happens at a poll that reads low and is preceded by a poll that read high;
\* a button that is low at the first poll and was never read high does not
\* trigger it.
C11_OnlyOnFallingEdge ==
    \A j \in DOMAIN log :
        log[j] = "call" =>
            /\ j > 1 /\ log[j - 1] = "poll_low"
            /\ \E h \in 1..(j - 2) : log[h] = "poll_high"

\* C12: one run handles exactly one press: after handle_button_press has
\* returned no further poll is made and it is not invoked again,
\* file_write_mode returns the same boolean, and the run goes on to cleanup
\* and exit.
C12_OnePressPerRun ==
    /\ [](CountEv("call") <= 1)
    /\ [](ret # "none" => pc \in {"fwm_ret", "fwm_done", "cleanup", "exit"})
    /\ []((ret # "none" /\ pc \in {"fwm_done", "cleanup", "exit"} /\ ~interrupted)
             => file_written = (ret = "true"))
    /\ [][ret # "none" => (polls' = polls /\ attempts' = attempts)]_vars

C12_Witness ==
    /\ pc = "exit"
    /\ ret = "true"
    /\ file_written
    /\ CountEv("call") = 1
    /\ CountEv("poll_high") = 2
    /\ ~interrupted

\* C13: a user interrupt arriving in any phase of the program is followed by
\* the GPIO cleanup before the process exits: the process never exits after an
\* interrupt with the pins still set up.
C13_InterruptAlwaysCleansUp ==
    (pc = "exit" /\ interrupted) => gpio # "ready"

\* positions inside handle_button_press
HbpPcs == {"hbp_start", "hbp_write", "hbp_blink_on", "hbp_blink_off", "hbp_wait",
           "hbp_succ", "hbp_succ_off", "hbp_fail"}

RGB(l) == <<l.red, l.green, l.blue>>

\* a step taken inside handle_button_press leaves network_connected alone and
\* changes the indicator only at the final failure
PressStepKeepsNetworkState ==
    pc \in HbpPcs =>
        /\ network_connected' = network_connected
        /\ (RGB(led') # RGB(led) => (pc = "hbp_fail" /\ pc' = "fwm_ret"))

\* C15: the network status update never executes between the start and the
\* return of handle_button_press: during a write sequence network_connected
\* is unchanged, no probe is made, and the indicator is written only by the
\* pipeline (its final failure color).
C15_NoProbeDuringPress ==
    /\ [][PressStepKeepsNetworkState]_vars
    /\ [](\A i, j \in DOMAIN log :
             (log[i] = "call" /\ i < j) => log[j] \notin {"probe_up", "probe_down"})

C15_Witness ==
    /\ pc = "hbp_wait"
    /\ flips = 1
    /\ reachable # network_connected
    /\ led.green = network_connected

\* C16: after a network status tick network_connected equals the result of
\* the probe and the indicator is green only if the probe succeeded and red
\* only if it failed; the blue channel is never on.
C16_IndicatorShowsProbe ==
    /\ ~led.blue
    /\ (log # <<>> /\ log[Len(log)] = "probe_up")
          => (network_connected /\ RGB(led) = <<FALSE, TRUE, FALSE>>)
    /\ (log # <<>> /\ log[Len(log)] = "probe_down")
          => (~network_connected /\ RGB(led) = <<TRUE, FALSE, FALSE>>)

C16_Witness ==
    /\ log # <<>>
    /\ log[Len(log)] = "probe_up"
    /\ pc = "fwm_poll"
    /\ led.green /\ ~led.red
    /\ network_connected

\* C17: the status light is on at every call of write_data_file and during
\* every blink burst and retry delay of a press, having been raised before
\* the first attempt; it is off before the press and after either return of
\* handle_button_press.
C17_StatusLightDuringPress ==
    /\ pc \in {"hbp_write", "hbp_blink_on", "hbp_blink_off", "hbp_wait",
               "hbp_fail", "hbp_succ"}
          => led.status
    /\ CountEv("call") = 0 => ~led.status
    /\ ret # "none" => ~led.status

C17_Witness ==
    /\ pc = "hbp_wait"
    /\ retry = 2
    /\ led.status
    /\ Len(attempts) = 2

\* C18: the success light and the error light are never both on: the success
\* light is on only after a successful attempt and is off again when
\* handle_button_press returns; at a true return the error light is off
\* (every blink burst ends with it off), at a false return it is on.
C18_SuccessAndErrorExclusive ==
    /\ ~(led.success /\ led.error)
    /\ led.success =>
          /\ attempts # <<>> /\ attempts[Len(attempts)].ok
          /\ ret = "none"
    /\ ret = "true" => (~led.error /\ ~led.success)
    /\ (ret = "false" /\ gpio # "cleaned") => (led.error /\ ~led.success)
    /\ pc \in {"hbp_wait", "hbp_write", "hbp_succ", "hbp_succ_off"} => ~led.error

C18_Witness ==
    /\ pc = "hbp_succ_off"
    /\ led.success
    /\ ~led.error
    /\ CountEv("blink") = 3

\* positions of file_write_mode's polling loop: the program waits for a press
Waiting == pc \in {"fwm_poll", "fwm_sleep", "fwm_idle"}

\* C14: while the program waits for a press the indicator keeps reflecting
\* network reachability: a change of reachability after start-up is eventually
\* shown on the indicator (green iff reachable) unless the wait ends first.
C14_ReachabilityChangeShown ==
    [](( Waiting /\ led.green # reachable)
          => <>(~Waiting \/ led.green = reachable))

\* C19: once invoked, handle_button_press returns after at most max_retries+1
\* attempts (unless the user interrupts it); the run reaches GPIO cleanup once
\* the button has been read low at a poll; while it has not been read low the
\* program never leaves the polling loop by itself and keeps polling forever.
C19_Termination ==
    /\ [](Len(attempts) <= max_retries + 1)
    /\ [](pc \in HbpPcs => <>(ret # "none" \/ interrupted))
    /\ [](CountEv("poll_low") > 0 => <>(gpio = "cleaned"))
    /\ []((CountEv("poll_low") = 0 /\ ~interrupted)
             => pc \in (CtorPcs \cup {"run_probe"}) \/ Waiting)
    /\ ([]<>(pc = "fwm_poll") \/ <>(CountEv("poll_low") > 0 \/ interrupted))

C19_Witness ==
    /\ pc = "exit"
    /\ gpio = "cleaned"
    /\ ret = "false"
    /\ max_retries = 3
    /\ Len(attempts) = 4
    /\ ~interrupted

====
